---- MODULE Spec2Model ----
(***************************************************************************)
(* gemails (main.go): collect the distinct committer emails of a GitHub    *)
(* account's repositories, save them to a file, then look up the expiry    *)
(* date of every email domain.                                             *)
(*                                                                         *)
(* Strings whose characters matter (emails, domains, the output file) are  *)
(* sequences of one-character strings; the line feed is the character      *)
(* "\n".  Repository names are opaque strings.  Times are counted in hours  *)
(* since 0001-01-01 00:00 UTC, the instant Go's zero time.Time denotes.    *)
(***************************************************************************)
EXTENDS Integers, Sequences, FiniteSets, TLC

VARIABLES
    repoFlag,       \* *repo, the value of -r ("" when absent)
    pc,             \* position of main
    repos,          \* repos, the slice main ranges over
    ri,             \* index of the repository the outer loop is at
    commits,        \* commits of repos[ri] the inner loop has yet to take
    unmarshalErr,   \* whether json.Unmarshal in the last fetchCommits failed
    uniqueEmails,   \* map[string]bool, as its key set
    uniqueDomains,  \* map[string]bool, as its key set
    fileCreated,    \* whether os.Create has made the output file
    content,        \* the bytes of the output file
    toWrite,        \* keys the range of saveUniqueEmails has yet to produce
    toCheck,        \* keys the range of checkDomainsExpiry has yet to produce
    verdict,        \* what checkDomainsExpiry reported, per domain
    lastCheck,      \* the WHOIS reply and clock of the last iteration
    calls,          \* log of the network calls made through sendRequest
    lastResp,       \* the response to the call of the current iteration
    lookups,        \* log of the whois.Whois calls
    input,          \* the emails of every commit fetchCommits has returned
    abortedBy       \* the function whose log.Fatalf ended the process

vars == <<repoFlag, pc, repos, ri, commits, unmarshalErr, uniqueEmails,
          uniqueDomains, fileCreated, content, toWrite, toCheck, verdict,
          lastCheck, calls, lastResp, lookups, input, abortedBy>>

----------------------------------------------------------------------------
(* Bounds of the model *)

MaxRepos == 2      \* longest repository listing
MaxCommits == 2    \* longest commit listing
MaxLen == 4        \* longest email of the extractDomainFromEmail runs

----------------------------------------------------------------------------
(* Strings *)

SeqUpTo(S, n) == UNION {[1..k -> S] : k \in 0..n}

Range(s) == {s[i] : i \in 1..Len(s)}

\* The position of the first c in s, or 0.
RECURSIVE IndexFrom(_, _, _)
IndexFrom(s, c, i) ==
    IF i > Len(s) THEN 0
    ELSE IF s[i] = c THEN i
    ELSE IndexFrom(s, c, i + 1)

Index(s, c) == IndexFrom(s, c, 1)

\* strings.Split(s, sep) for a one-character sep: the pieces between the
\* occurrences of sep, Count(s, sep) + 1 of them.
RECURSIVE Split(_, _)
Split(s, sep) ==
    LET i == Index(s, sep)
    IN  IF i = 0 THEN <<s>>
        ELSE <<SubSeq(s, 1, i - 1)>> \o Split(SubSeq(s, i + 1, Len(s)), sep)

----------------------------------------------------------------------------
(* The inputs of a run *)

\* The account's repositories, in the order the listing gives them.
RepoName(i) == <<"repo", i>>
NoName == <<>>
RepoNames == {RepoName(i) : i \in 1..MaxRepos}
Listings == {[i \in 1..n |-> RepoName(i)] : n \in 0..MaxRepos}

\* Committer emails: none, two of different domains, one without an '@',
\* and one with two.
NoEmail == <<>>
Emails == { NoEmail,
            <<"a", "@", "x">>,
            <<"a", "@", "y">>,
            <<"a", "b">>,
            <<"a", "@", "x", "@", "y">> }

\* The characters of the emails handed to extractDomainFromEmail alone.
Alphabet == {"a", "@", "."}

\* http.StatusOK, http.StatusConflict, and the statuses that are neither.
StatusOK == 200
StatusConflict == 409
OtherStatuses == {404}

\* One element of a JSON array: ok when it has the shape of the Go type it is
\* decoded into, and then v is the decoded field (Repository.Name, or
\* Commit.CommitData.Committer.Email).
Good(v) == [ok |-> TRUE, v |-> v]
Bad(zero) == [ok |-> FALSE, v |-> zero]

\* What the server answers to one GET.  err: http.NewRequest or client.Do
\* failed; status: resp.StatusCode (0 when there is no answer); readErr:
\* ioutil.ReadAll failed; form: the body is not JSON ("invalid"), JSON but
\* not an array ("nonarray"), or a JSON array of elems ("array").
Response(err, status, readErr, form, elems) ==
    [err |-> err, status |-> status, readErr |-> readErr, form |-> form,
     elems |-> elems]

\* The body of an answer, without its elements.
Envelope(resp) == [resp EXCEPT !.elems = <<>>]

\* arrays: the sequences of decoded fields a JSON array may hold; any one
\* of its elements may instead be of the wrong type.
Spoiled(arrays, zero) ==
    UNION { { [i \in 1..Len(a) |-> IF i = k THEN Bad(zero) ELSE Good(a[i])] :
                k \in 0..Len(a) } : a \in arrays }

Responses(arrays, zero) ==
    { Response(TRUE, 0, FALSE, "invalid", <<>>),
      Response(FALSE, StatusConflict, FALSE, "invalid", <<>>),
      Response(FALSE, StatusOK, TRUE, "invalid", <<>>),
      Response(FALSE, StatusOK, FALSE, "invalid", <<>>),
      Response(FALSE, StatusOK, FALSE, "nonarray", <<>>) }
    \cup { Response(FALSE, st, FALSE, "invalid", <<>>) : st \in OtherStatuses }
    \cup { Response(FALSE, StatusOK, FALSE, "array", e) :
             e \in Spoiled(arrays, zero) }

RepoResponses == Responses(Listings, NoName)
CommitResponses == Responses(SeqUpTo(Emails, MaxCommits), NoEmail)

----------------------------------------------------------------------------
(* The functions of main.go *)

\* log.Fatalf: the process exits; otherwise the value returned.
Exit == [exit |-> TRUE, err |-> FALSE, val |-> <<>>]
Return(err, val) == [exit |-> FALSE, err |-> err, val |-> val]

NilBody == [form |-> "empty", elems |-> <<>>]

\* sendRequest with every status but 200 skipped the way 409 is.
sendRequestSkipAnyStatus(resp) ==
    IF resp.err THEN Exit
    ELSE IF resp.status # StatusOK THEN Return(FALSE, NilBody)
    ELSE IF resp.readErr THEN Exit
    ELSE Return(FALSE, [form |-> resp.form, elems |-> resp.elems])

sendRequest(resp) ==
    IF resp.err THEN Exit
    ELSE IF resp.status = StatusConflict THEN Return(FALSE, NilBody)
    ELSE IF resp.status # StatusOK THEN Exit
    ELSE IF resp.readErr THEN Exit
    ELSE Return(FALSE, [form |-> resp.form, elems |-> resp.elems])

\* json.Unmarshal(body, &slice).  Input that is not valid JSON (the empty
\* input included) is rejected before anything is stored.  A value of the
\* wrong type is skipped, its place keeps the zero value, decoding goes on
\* and the error is returned at the end.
jsonUnmarshal(body) ==
    IF body.form = "array"
    THEN Return(\E i \in 1..Len(body.elems) : ~body.elems[i].ok,
                [i \in 1..Len(body.elems) |-> body.elems[i].v])
    ELSE Return(TRUE, <<>>)

fetchRepos(resp) ==
    LET response == sendRequest(resp)
        decoded == jsonUnmarshal(response.val)
    IN  IF response.exit THEN Exit
        ELSE IF decoded.err THEN Exit
        ELSE Return(FALSE, decoded.val)

fetchCommits(resp) ==
    LET response == sendRequest(resp)
    IN  IF response.exit THEN Exit
        ELSE jsonUnmarshal(response.val)

\* extractDomainFromEmail taking the last piece instead of the second.
extractDomainLastPart(email) ==
    LET parts == Split(email, "@")
    IN  IF Len(parts) > 1 THEN parts[Len(parts)] ELSE <<>>

\* extractDomainFromEmail taking the piece before the '@'.
extractDomainFirstPart(email) ==
    LET parts == Split(email, "@")
    IN  IF Len(parts) > 1 THEN parts[1] ELSE <<>>

extractDomainFromEmail(email) ==
    LET parts == Split(email, "@")
    IN  IF Len(parts) > 1 THEN parts[2] ELSE <<>>

----------------------------------------------------------------------------
(* WHOIS text, dates and the clock *)

\* A WHOIS text as the pieces the pattern of extractExpiryDateFromWhois
\* tells apart: KW1 is expiration|expire|expiry and KW2 is date|time (in any
\* case), SP is a character of [:\s], PUNCT any other non-word character,
\* WORD any other run of word characters, and DATE a \d{4}-\d{2}-\d{2} with
\* its three numbers.
Tok(t) == [t |-> t, date |-> <<0, 0, 0>>]
DateTok(d) == [t |-> "DATE", date |-> d]

HoursPerDay == 24
ExpiryThresholdDays == 30
\* The largest time.Duration (2^63 - 1 ns), in whole hours.
MaxDurationHours == 2562047

IsLeap(y) == (y % 4 = 0 /\ y % 100 # 0) \/ y % 400 = 0

DaysIn(y, m) ==
    IF m = 2 THEN (IF IsLeap(y) THEN 29 ELSE 28)
    ELSE IF m \in {4, 6, 9, 11} THEN 30 ELSE 31

RECURSIVE DaysBeforeMonth(_, _)
DaysBeforeMonth(y, m) ==
    IF m <= 1 THEN 0 ELSE DaysBeforeMonth(y, m - 1) + DaysIn(y, m - 1)

\* Days from 0001-01-01 to y-m-d in the proleptic Gregorian calendar.
DaysSinceZero(y, m, d) ==
    LET p == y - 1
    IN  365 * p + (p \div 4) - (p \div 100) + (p \div 400)
        + DaysBeforeMonth(y, m) + (d - 1)

\* A time.Time, in hours since the zero Time.
Date(y, m, d) == DaysSinceZero(y, m, d) * HoursPerDay
ZeroTime == 0
IsZero(t) == t = ZeroTime

\* time.Parse("2006-01-02", s) of a string of the pattern's form: the month
\* and the day must exist; the result is midnight UTC of that day.
timeParse(date) ==
    LET y == date[1]
        m == date[2]
        d == date[3]
    IN  IF m < 1 \/ m > 12 \/ d < 1 \/ d > DaysIn(y, m)
        THEN [err |-> TRUE, t |-> ZeroTime]
        ELSE [err |-> FALSE, t |-> Date(y, m, d)]

\* time.Until(t) at clock reading now: t.Sub(now), which saturates.
timeUntil(t, now) ==
    LET d == t - now
    IN  IF d > MaxDurationHours THEN MaxDurationHours
        ELSE IF d < -MaxDurationHours THEN -MaxDurationHours
        ELSE d

NonWord(tok) == tok.t \in {"SP", "PUNCT"}

\* Whether the pattern matches with its first keyword at text[i], and the
\* position of the date it captures.  [^\w]* takes the non-word pieces after
\* KW1, then KW2, then [^\w]*[:\s]+ takes the non-word pieces up to the
\* date, the last of which must be of [:\s].
RECURSIVE SkipNonWord(_, _)
SkipNonWord(text, i) ==
    IF i <= Len(text) /\ NonWord(text[i]) THEN SkipNonWord(text, i + 1) ELSE i

MatchAt(text, i) ==
    LET j == SkipNonWord(text, i + 1)
        k == SkipNonWord(text, j + 1)
    IN  IF /\ text[i].t = "KW1"
           /\ j <= Len(text) /\ text[j].t = "KW2"
           /\ k > j + 1 /\ text[k - 1].t = "SP"
           /\ k <= Len(text) /\ text[k].t = "DATE"
        THEN k ELSE 0

\* expiryRegex.FindStringSubmatch(whoisInfo): the leftmost match, as the
\* position of its date (matches[3]), or 0 when there is none.
FindStringSubmatch(text) ==
    LET hits == {i \in 1..Len(text) : MatchAt(text, i) # 0}
    IN  IF hits = {} THEN 0
        ELSE MatchAt(text, CHOOSE i \in hits : \A h \in hits : i <= h)

extractExpiryDateFromWhois(whoisInfo) ==
    LET k == FindStringSubmatch(whoisInfo)
        parsed == timeParse(whoisInfo[k].date)
    IN  IF k # 0
        THEN (IF parsed.err THEN ZeroTime ELSE parsed.t)
        ELSE ZeroTime

\* One iteration of the loop of checkDomainsExpiry: what is reported for a
\* domain whose lookup returned reply at clock reading now.  The code
\* compares Hours() / 24 with 30, which is Hours() with 30 * 24.
checkDomain(reply, now) ==
    LET expiryDate == extractExpiryDateFromWhois(reply.text)
        hoursUntilExpiry == timeUntil(expiryDate, now)
    IN  IF ~reply.ok THEN "lookup failed"
        ELSE IF IsZero(expiryDate) THEN "no expiry date"
        ELSE IF hoursUntilExpiry < ExpiryThresholdDays * HoursPerDay
        THEN "expiring soon"
        ELSE "valid"

----------------------------------------------------------------------------
(* The WHOIS replies and clock readings of a run *)

\* Midnight and one o'clock of 2024-01-01.
Clock == {Date(2024, 1, 1) + h : h \in 0..1}

\* Dates a text may carry: 30 days after the clock's day, a past one, the
\* first and the last day the layout can state, the day of the zero Time,
\* and two that are no calendar days.
Dates == { <<2024, 1, 31>>, <<2020, 1, 1>>, <<0, 1, 1>>, <<9999, 12, 31>>,
           <<1, 1, 1>>, <<2024, 13, 1>>, <<2023, 2, 29>> }

WhoisTexts ==
    { <<Tok("KW1"), Tok("SP"), Tok("KW2"), Tok("SP"), DateTok(d)>> :
        d \in Dates }
    \cup
    { <<>>,
      <<Tok("WORD"), Tok("SP"), DateTok(<<2099, 1, 1>>)>>,
      <<Tok("KW1"), Tok("KW2"), Tok("PUNCT"), DateTok(<<2099, 1, 1>>)>>,
      <<Tok("KW1"), Tok("WORD"), Tok("KW2"), Tok("SP"),
        DateTok(<<2099, 1, 1>>)>>,
      <<Tok("KW1"), Tok("PUNCT"), Tok("KW2"), Tok("PUNCT"), Tok("SP"),
        DateTok(<<2099, 1, 1>>)>>,
      <<Tok("KW1"), Tok("KW2"), Tok("SP"), DateTok(<<2024, 13, 1>>),
        Tok("SP"), Tok("KW1"), Tok("KW2"), Tok("SP"),
        DateTok(<<2099, 1, 1>>)>> }

\* whois.Whois(domain): an error, or the text of the record.
WhoisReplies ==
    {[ok |-> FALSE, text |-> <<>>]}
    \cup {[ok |-> TRUE, text |-> t] : t \in WhoisTexts}

NoCheck == [domain |-> <<>>, reply |-> [ok |-> FALSE, text |-> <<>>], now |-> 0]
NoResponse == Response(FALSE, 0, FALSE, "none", <<>>)

\* The URLs sendRequest is called with.
ReposURL == [fn |-> "fetchRepos", repo |-> NoName]
CommitsURL(repo) == [fn |-> "fetchCommits", repo |-> repo]

----------------------------------------------------------------------------
(* The run of main, after the flags are parsed and validated *)

Init ==
    /\ repoFlag \in {NoName} \cup RepoNames
    /\ pc = "repos"
    /\ repos = <<>>
    /\ ri = 1
    /\ commits = <<>>
    /\ unmarshalErr = FALSE
    /\ uniqueEmails = {}
    /\ uniqueDomains = {}
    /\ fileCreated = FALSE
    /\ content = <<>>
    /\ toWrite = {}
    /\ toCheck = {}
    /\ verdict = <<>>
    /\ lastCheck = NoCheck
    /\ calls = <<>>
    /\ lastResp = NoResponse
    /\ lookups = <<>>
    /\ input = {}
    /\ abortedBy = "none"

\* The test of main.go:53 left out: the listing is fetched whatever -r says.
listAlways(flag) == TRUE

\* main.go:53: whether the repositories are to be listed (-r is empty).
listRepos(flag) == flag = NoName

\* main.go:53-55: -r names the one repository to process.
UseRepoFlag ==
    /\ pc = "repos"
    /\ ~listRepos(repoFlag)
    /\ repos' = <<repoFlag>>
    /\ pc' = "loop"
    /\ UNCHANGED <<repoFlag, ri, commits, unmarshalErr, uniqueEmails,
                   uniqueDomains, fileCreated, content, toWrite, toCheck,
                   verdict, lastCheck, calls, lastResp, lookups, input,
                   abortedBy>>

\* main.go:56-58: list the repositories of the account.
FetchRepos(resp) ==
    LET got == fetchRepos(resp)
    IN  /\ pc = "repos"
        /\ listRepos(repoFlag)
        /\ calls' = Append(calls, ReposURL)
        /\ lastResp' = Envelope(resp)
        /\ IF got.exit
           THEN /\ pc' = "aborted"
                /\ abortedBy' = "fetchRepos"
                /\ UNCHANGED repos
           ELSE /\ pc' = "loop"
                /\ repos' = got.val
                /\ UNCHANGED abortedBy
        /\ UNCHANGED <<repoFlag, ri, commits, unmarshalErr, uniqueEmails,
                       uniqueDomains, fileCreated, content, toWrite, toCheck,
                       verdict, lastCheck, lookups, input>>

\* main.go:62-65: the next repository of the range, and its commits.
FetchCommits(resp) ==
    LET got == fetchCommits(resp)
    IN  /\ pc = "loop"
        /\ ri <= Len(repos)
        /\ calls' = Append(calls, CommitsURL(repos[ri]))
        /\ lastResp' = Envelope(resp)
        /\ IF got.exit
           THEN /\ pc' = "aborted"
                /\ abortedBy' = "fetchCommits"
                /\ UNCHANGED <<commits, unmarshalErr, input>>
           ELSE /\ pc' = "commit"
                /\ commits' = got.val
                /\ unmarshalErr' = got.err
                /\ input' = input \cup Range(got.val)
                /\ UNCHANGED abortedBy
        /\ UNCHANGED <<repoFlag, repos, ri, uniqueEmails, uniqueDomains,
                       fileCreated, content, toWrite, toCheck, verdict,
                       lastCheck, lookups>>

\* The test of main.go:68 without its first half.
isNewOrEmpty(email, emails) == email \notin emails

\* main.go:68: email != "" && !uniqueEmails[email].
isNew(email, emails) == email # <<>> /\ email \notin emails

\* main.go:66-75: one commit of the inner range.
ProcessCommit ==
    LET email == commits[1]
        domain == extractDomainFromEmail(email)
    IN  /\ pc = "commit"
        /\ commits # <<>>
        /\ IF isNew(email, uniqueEmails)
           THEN /\ uniqueEmails' = uniqueEmails \cup {email}
                /\ uniqueDomains' = IF domain # <<>>
                                     THEN uniqueDomains \cup {domain}
                                     ELSE uniqueDomains
           ELSE UNCHANGED <<uniqueEmails, uniqueDomains>>
        /\ commits' = Tail(commits)
        /\ UNCHANGED <<repoFlag, pc, repos, ri, unmarshalErr,
                       fileCreated, content, toWrite, toCheck, verdict,
                       lastCheck, calls, lastResp, lookups, input, abortedBy>>

\* main.go:76: the inner range is over, and with it the iteration of the
\* outer one.
NextRepo ==
    /\ pc = "commit"
    /\ commits = <<>>
    /\ ri' = ri + 1
    /\ pc' = "loop"
    /\ unmarshalErr' = FALSE
    /\ lastResp' = NoResponse
    /\ UNCHANGED <<repoFlag, repos, commits, uniqueEmails, uniqueDomains,
                   fileCreated, content, toWrite, toCheck, verdict, lastCheck,
                   calls, lookups, input, abortedBy>>

\* main.go:77: the outer range is over.
EndRepos ==
    /\ pc = "loop"
    /\ ri > Len(repos)
    /\ pc' = "save"
    /\ UNCHANGED <<repoFlag, repos, ri, commits, unmarshalErr,
                   uniqueEmails, uniqueDomains, fileCreated, content, toWrite,
                   toCheck, verdict, lastCheck, calls, lastResp, lookups,
                   input, abortedBy>>

\* main.go:80, 143-147: os.Create makes (or empties) the output file.
CreateFile(ok) ==
    /\ pc = "save"
    /\ IF ok
       THEN /\ fileCreated' = TRUE
            /\ content' = <<>>
            /\ toWrite' = uniqueEmails
            /\ pc' = "write"
            /\ UNCHANGED abortedBy
       ELSE /\ pc' = "aborted"
            /\ abortedBy' = "saveUniqueEmails"
            /\ UNCHANGED <<fileCreated, content, toWrite>>
    /\ UNCHANGED <<repoFlag, repos, ri, commits, unmarshalErr,
                   uniqueEmails, uniqueDomains, toCheck, verdict, lastCheck,
                   calls, lastResp, lookups, input>>

\* The line of main.go:150 without its line feed.
lineUnterminated(email) == email

\* main.go:150: email + "\n".
lineOf(email) == email \o <<"\n">>

\* main.go:149-153: the range produces a key not yet produced, and
\* file.WriteString writes its line; n is the number of bytes that reached
\* the file, all of them unless the write failed.
WriteEmail(email, n) ==
    LET line == lineOf(email)
    IN  /\ pc = "write"
        /\ email \in toWrite
        /\ n \in 0..Len(line)
        /\ content' = content \o SubSeq(line, 1, n)
        /\ IF n = Len(line)
           THEN /\ toWrite' = toWrite \ {email}
                /\ UNCHANGED <<pc, abortedBy>>
           ELSE /\ pc' = "aborted"
                /\ abortedBy' = "saveUniqueEmails"
                /\ UNCHANGED toWrite
        /\ UNCHANGED <<repoFlag, repos, ri, commits, unmarshalErr,
                       uniqueEmails, uniqueDomains, fileCreated, toCheck,
                       verdict, lastCheck, calls, lastResp, lookups, input>>

\* main.go:81-84: saveUniqueEmails has returned; checkDomainsExpiry starts.
EndWrite ==
    /\ pc = "write"
    /\ toWrite = {}
    /\ pc' = "check"
    /\ toCheck' = uniqueDomains
    /\ UNCHANGED <<repoFlag, repos, ri, commits, unmarshalErr,
                   uniqueEmails, uniqueDomains, fileCreated, content, toWrite,
                   verdict, lastCheck, calls, lastResp, lookups, input,
                   abortedBy>>

\* The loop of checkDomainsExpiry left at a failed lookup.
rangeLeftOnFailure(keys, domain, outcome) ==
    IF outcome = "lookup failed" THEN {} ELSE keys \ {domain}

\* The keys the range of checkDomainsExpiry has yet to produce once domain
\* has been dealt with: every branch of the body goes on to the next key.
rangeAfter(keys, domain, outcome) == keys \ {domain}

\* main.go:158-180: the range produces a key not yet produced, and the body
\* looks it up and reports on it.
CheckDomain(domain, reply, now) ==
    LET outcome == checkDomain(reply, now)
    IN  /\ pc = "check"
        /\ domain \in toCheck
        /\ lookups' = Append(lookups, domain)
        /\ lastCheck' = [domain |-> domain, reply |-> reply, now |-> now]
        /\ verdict' = (domain :> outcome) @@ verdict
        /\ toCheck' = rangeAfter(toCheck, domain, outcome)
        /\ UNCHANGED <<repoFlag, pc, repos, ri, commits, unmarshalErr,
                       uniqueEmails, uniqueDomains, fileCreated, content,
                       toWrite, calls, lastResp, input, abortedBy>>

\* main.go:181, 85: the range is over and main returns.
EndCheck ==
    /\ pc = "check"
    /\ toCheck = {}
    /\ pc' = "done"
    /\ lastCheck' = NoCheck
    /\ UNCHANGED <<repoFlag, repos, ri, commits, unmarshalErr,
                   uniqueEmails, uniqueDomains, fileCreated, content, toWrite,
                   toCheck, verdict, calls, lastResp, lookups, input,
                   abortedBy>>

\* A step of checkDomainsExpiry.
CheckStep ==
    \/ \E domain \in uniqueDomains, reply \in WhoisReplies, now \in Clock :
          CheckDomain(domain, reply, now)
    \/ EndCheck

Next ==
    \/ UseRepoFlag
    \/ \E resp \in RepoResponses : FetchRepos(resp)
    \/ \E resp \in CommitResponses : FetchCommits(resp)
    \/ ProcessCommit
    \/ NextRepo
    \/ EndRepos
    \/ \E ok \in BOOLEAN : CreateFile(ok)
    \/ \E email \in toWrite : \E n \in 0..Len(lineOf(email)) :
          WriteEmail(email, n)
    \/ EndWrite
    \/ CheckStep

Spec == Init /\ [][Next]_vars

----------------------------------------------------------------------------
(* extractDomainFromEmail on every short email: main at line 66, with one   *)
(* commit of that email before it.                                          *)

InitDomain ==
    /\ repoFlag = RepoName(1)
    /\ pc = "commit"
    /\ repos = <<RepoName(1)>>
    /\ ri = 1
    /\ commits \in {<<e>> : e \in SeqUpTo(Alphabet, MaxLen)}
    /\ unmarshalErr = FALSE
    /\ uniqueEmails = {}
    /\ uniqueDomains = {}
    /\ fileCreated = FALSE
    /\ content = <<>>
    /\ toWrite = {}
    /\ toCheck = {}
    /\ verdict = <<>>
    /\ lastCheck = NoCheck
    /\ calls = <<CommitsURL(RepoName(1))>>
    /\ lastResp = Response(FALSE, StatusOK, FALSE, "array", <<>>)
    /\ lookups = <<>>
    /\ input = Range(commits)
    /\ abortedBy = "none"

NextDomain == ProcessCommit

SpecDomain == InitDomain /\ [][NextDomain]_vars

----------------------------------------------------------------------------
(* What the claims speak of *)

Count(q, c) == Cardinality({i \in 1..Len(q) : q[i] = c})

\* Everything after the first '@' of an email, and nothing for an email
\* without one.
AfterFirstAt(e) ==
    IF Index(e, "@") = 0 THEN <<>> ELSE SubSeq(e, Index(e, "@") + 1, Len(e))

\* The characters of s before its first '@', all of s when it has none.
BeforeAt(s) ==
    IF Index(s, "@") = 0 THEN s ELSE SubSeq(s, 1, Index(s, "@") - 1)

\* The stretch between the first '@' of an email and its next one.
UpToSecondAt(e) == BeforeAt(AfterFirstAt(e))

\* The Domain Set a single email leaves behind when d is derived from it.
Stored(d) == IF d = <<>> THEN {} ELSE {d}

\* The inner loop has taken every commit fetched so far.
Consumed == commits = <<>>

\* The network calls made so far, by the function that made them.
CallsOf(fn) == {i \in 1..Len(calls) : calls[i].fn = fn}

AbortedFetching == abortedBy \in {"fetchRepos", "fetchCommits"}

IsConflict(resp) == ~resp.err /\ resp.status = StatusConflict

\* A transport failure, or a status that is neither 200 nor 409.
IsFatal(resp) ==
    resp.err \/ (resp # NoResponse /\ resp.status \notin {StatusOK, StatusConflict})

\* C1: once the loop has consumed every commit returned so far, the Email
\* Set holds exactly the non-empty emails that occurred in them.
C1_EmailSetIsInput ==
    Consumed => uniqueEmails = input \ {NoEmail}

C1_Witness ==
    /\ pc = "save"
    /\ Len(calls) >= 3
    /\ NoEmail \in input
    /\ Cardinality(uniqueEmails) >= 3

C3_DomainsComeFromEmails ==
    /\ \A d \in uniqueDomains :
          d # <<>> /\ \E e \in uniqueEmails : UpToSecondAt(e) = d
    /\ Cardinality(uniqueDomains) <= Cardinality(uniqueEmails)

C3_Witness ==
    /\ pc = "commit" /\ ~Consumed
    /\ Cardinality(uniqueDomains) = 2
    /\ Cardinality(uniqueEmails) = 3

\* A date of the calendar: a month of the year and a day of that month.
IsCalendarDate(date) ==
    /\ date[2] \in 1..12
    /\ date[3] \in 1..DaysIn(date[1], date[2])

Outcomes == {"lookup failed", "no expiry date", "expiring soon", "valid"}

\* C4: a domain whose lookup succeeded is reported without an expiry date
\* when the text yields no date, and otherwise is expiring soon when fewer
\* than 30 days remain and valid when 30 or more do; a text that yields a
\* well-formed date is never reported as having none.
C4_WellFormedDateIsClassified ==
    (lastCheck # NoCheck /\ lastCheck.reply.ok) =>
        LET text == lastCheck.reply.text
            k == FindStringSubmatch(text)
            date == text[k].date
            remaining == Date(date[1], date[2], date[3]) - lastCheck.now
            reported == verdict[lastCheck.domain]
        IN  IF k = 0 \/ ~IsCalendarDate(date)
            THEN reported = "no expiry date"
            ELSE IF remaining < ExpiryThresholdDays * HoursPerDay
            THEN reported = "expiring soon"
            ELSE reported = "valid"

\* C5: a call answered 409 returns no data and does not end the run, be it
\* the repository listing or a commit listing.
C5_ConflictNeverAborts ==
    IsConflict(lastResp) => (~AbortedFetching /\ commits = <<>>)

\* C6: in checkDomainsExpiry every domain of the Domain Set is looked up
\* once and gets one outcome, whatever the outcomes of the others; no
\* outcome ends the run, the loop can always go on, and it ends with every
\* domain reported.
C6_EveryDomainCheckedOnce ==
    /\ pc \in {"check", "done"} =>
          /\ abortedBy = "none"
          /\ toCheck \subseteq uniqueDomains
          /\ Range(lookups) \subseteq uniqueDomains
          /\ \A d \in uniqueDomains :
                Count(lookups, d) = (IF d \in toCheck THEN 0 ELSE 1)
          /\ DOMAIN verdict = Range(lookups)
          /\ \A d \in DOMAIN verdict : verdict[d] \in Outcomes
          /\ pc = "done" => toCheck = {}
          /\ pc = "check" => ENABLED CheckStep
    /\ pc \notin {"check", "done"} => lookups = <<>>

C6_Witness ==
    /\ pc = "done"
    /\ Len(lookups) = 2
    /\ verdict[lookups[1]] = "lookup failed"
    /\ verdict[lookups[2]] = "valid"

\* C7: when the body of a commit listing cannot be decoded, the repository
\* contributes no commit and the run goes on.
C7_DecodeErrorGivesNoCommits ==
    unmarshalErr => (pc = "commit" /\ commits = <<>>)

\* C8: with -r the listing is never fetched and the one commit listing
\* fetched is that of the named repository; without -r the listing is
\* fetched once, before any commit listing.
C8_ListingOnlyWithoutFlag ==
    /\ repoFlag # NoName =>
          /\ CallsOf("fetchRepos") = {}
          /\ calls = IF pc = "repos" \/ (pc = "loop" /\ ri = 1)
                      THEN <<>> ELSE <<CommitsURL(repoFlag)>>
    /\ repoFlag = NoName =>
          /\ CallsOf("fetchRepos") = IF pc = "repos" THEN {} ELSE {1}
          /\ pc = "repos" => calls = <<>>

C8_Witness ==
    /\ pc = "done"
    /\ repoFlag = RepoName(2)
    /\ calls = <<CommitsURL(RepoName(2))>>
    /\ uniqueEmails # {}

\* The lines of a text: the stretches its line feeds end.
Lines(text) ==
    LET pieces == Split(text, "\n")
    IN  SubSeq(pieces, 1, Len(pieces) - 1)

\* Whether a text ends where a line does.
EndsWithLine(text) == text = <<>> \/ text[Len(text)] = "\n"

\* C9: when saveUniqueEmails has returned, the lines of the output file are
\* the emails of the Email Set, each on one line and nothing else.
C9_FileIsEmailSet ==
    pc \in {"check", "done"} =>
        /\ fileCreated
        /\ EndsWithLine(content)
        /\ Range(Lines(content)) = uniqueEmails
        /\ Len(Lines(content)) = Cardinality(uniqueEmails)

C9_Witness ==
    /\ pc = "check"
    /\ Cardinality(uniqueEmails) = 3
    /\ Len(Lines(content)) = 3

\* C10: a fatal answer to a listing call is the last thing the run does:
\* no call follows it, the output file is not created and no domain is
\* looked up.  The file is created and domains are looked up only once
\* every repository's commits have been fetched.
C10_FatalFetchEndsRun ==
    /\ IsFatal(lastResp) =>
          /\ pc = "aborted" /\ AbortedFetching
          /\ ~fileCreated /\ content = <<>> /\ lookups = <<>>
    /\ AbortedFetching =>
          ~fileCreated /\ content = <<>> /\ lookups = <<>>
    /\ (fileCreated \/ lookups # <<>>) =>
          /\ ri = Len(repos) + 1
          /\ Cardinality(CallsOf("fetchCommits")) = Len(repos)
          /\ ~AbortedFetching

C10_Witness ==
    /\ pc = "aborted"
    /\ abortedBy = "fetchCommits"
    /\ IsFatal(lastResp)
    /\ Len(calls) = 3
    /\ uniqueEmails # {}

====
